---- MODULE Spec2Model ----
(***************************************************************************)
(* A model of migrate.py: the `up` command (apply_migrations and           *)
(* _apply_revisions_to_database) and the `down` command                    *)
(* (remove_migration) working on the two ledger tables `revision` and      *)
(* `dependent_revision`.  Every transaction of the program is one step of  *)
(* the model; a script run against the store, or the opening of a script   *)
(* file, may fail at any time.                                             *)
(***************************************************************************)
EXTENDS Integers, Sequences, FiniteSets, TLC

\* Largest number of predecessor marker lines in all the files of a catalog.
MaxMarkers == 3

\* Largest number of marker lines of a catalog on which two invocations race.
MaxRaceMarkers == 1

\* The revisions that have a file in up/ in the enumerated catalogs.
Files == {"A", "B", "C"}

\* A revision without a file in up/: a marker line may name it, and the
\* revision table may hold it from the time its file still existed.
Ghosts == {"Z"}

Ids == Files \cup Ghosts

VARIABLES
    catalog,                  \* up/*.sql: revision -> the predecessors its marker lines name, in file order
    revision,                 \* table revision ("Revision")
    dependent_revision,       \* table dependent_revision (<<"ParentRevision", "DependentRevision">>)
    pc,                       \* "idle", "up" (inside the while loop), "down" (inside remove_migration)
    revision_to_predecessors, \* local of `up`: revision -> <<all predecessors, outstanding predecessors>>
    todo,                     \* local of `up`: what the for loop of the current round has not reached yet
    stack,                    \* the activations of remove_migration, outermost first
    cmd,                      \* the current or last command line
    result,                   \* how the last command ended: "none", "ok", "exit1", "error"
    ledger0,                  \* the two tables when the current or last command started
    rounds,                   \* the revisions the last `up` committed, one set per pass of the while loop
                              \* (forgotten, with base, by a `down` that clears rt)
    undone,                   \* the revisions the current or last `down` removed, in commit order
    failed,                   \* the revision whose transaction failed in the current or last command
    base,                     \* the two tables when the last `up` started
    rt,                       \* TRUE while every `down` since that `up` asked for a revision it applied
    pc2,                      \* a second invocation, of `up`: "idle" (not started), "up", "done"
    revision_to_predecessors2, \* its revision_to_predecessors
    todo2,                    \* what its for loop has not reached yet in the current round
    result2,                  \* how it ended: "none", "ok", "exit1", "error"
    failed2,                  \* the revision whose transaction failed in it
    done2                     \* the revisions it committed

second == <<pc2, revision_to_predecessors2, todo2, result2, failed2, done2>>

vars == <<catalog, revision, dependent_revision, pc, revision_to_predecessors, todo, stack,
          cmd, result, ledger0, rounds, undone, failed, base, rt,
          pc2, revision_to_predecessors2, todo2, result2, failed2, done2>>

Range(s) == {s[i] : i \in DOMAIN s}

----------------------------------------------------------------------------
\* The catalogs

\* The predecessors the marker lines of file f name, in file order.
PredsOf(lines, f) ==
    LET sel == SelectSeq(lines, LAMBDA l : l[1] = f)
    IN  [i \in 1..Len(sel) |-> sel[i][2]]

\* Every catalog over Files with at most MaxMarkers marker lines; a line may
\* name any identifier: the file itself, a ghost, the same one twice.
Catalogs ==
    {[f \in Files |-> PredsOf(ls, f)] :
        ls \in UNION {[1..n -> Files \X Ids] : n \in 0..MaxMarkers}}

\* Scenario 1 of the specification: A:[], B:[A], C:[A], D:[B,C].
Scenario1 ==
    [f \in {"A", "B", "C", "D"} |->
        CASE f = "A" -> <<>>
          [] f = "B" -> <<"A">>
          [] f = "C" -> <<"A">>
          [] f = "D" -> <<"B", "C">>]

----------------------------------------------------------------------------
\* The store: constraints of the two tables and the transactions

NoRow == "none"

\* InsertRevision on a table without revisions_pk.
InsertRevisionNoPK(rev, R) == [ok |-> TRUE, rows |-> R \cup {rev}]

\* INSERT INTO revision: revisions_pk refuses a second row of the same name.
InsertRevision(rev, R) ==
    IF rev \in R THEN [ok |-> FALSE, rows |-> R]
                 ELSE [ok |-> TRUE, rows |-> R \cup {rev}]

\* InsertEdges with :parent and :dependent bound the wrong way round.
RECURSIVE InsertSwappedEdges(_, _, _, _)
InsertSwappedEdges(parents, rev, R, E) ==
    IF parents = <<>> THEN [ok |-> TRUE, rows |-> E]
    ELSE LET p == Head(parents)
         IN  IF p \notin R \/ <<rev, p>> \in E
             THEN [ok |-> FALSE, rows |-> E]
             ELSE InsertSwappedEdges(Tail(parents), rev, R, E \cup {<<rev, p>>})

\* The loop of INSERT INTO dependent_revision, one per declared predecessor:
\* the two foreign keys want parent and dependent in revision,
\* dependent_revisions_pk refuses the same pair twice.
RECURSIVE InsertEdges(_, _, _, _)
InsertEdges(parents, rev, R, E) ==
    IF parents = <<>> THEN [ok |-> TRUE, rows |-> E]
    ELSE LET p == Head(parents)
         IN  IF p \notin R \/ rev \notin R \/ <<p, rev>> \in E
             THEN [ok |-> FALSE, rows |-> E]
             ELSE InsertEdges(Tail(parents), rev, R, E \cup {<<p, rev>>})

\* AbortedTx on a connection that commits each statement: the revision row
\* stays.
PartialTx(rev, R, E) == <<R \cup {rev}, E>>

\* What a transaction that raised leaves in the tables: `with
\* db_engine.begin()` rolls everything back.

AbortedTx(rev, R, E) == <<R, E>>

\* DeleteDependentRevision without its WHERE clause.
DeleteAllEdges(rev, E) == {}

\* DELETE FROM dependent_revision where "DependentRevision" = rev
DeleteDependentRevision(rev, E) == {e \in E : e[2] # rev}

\* DeleteRevision on tables without the two foreign keys.
DeleteRevisionNoFK(rev, R, E) == [ok |-> TRUE, rows |-> R \ {rev}]

\* DeleteRevision without the DELETE.
KeepRevision(rev, R, E) ==
    IF \E e \in E : e[1] = rev \/ e[2] = rev
    THEN [ok |-> FALSE, rows |-> R]
    ELSE [ok |-> TRUE, rows |-> R]

\* DELETE FROM revision: both foreign keys are ON DELETE NO ACTION, a row
\* that an edge still names cannot go.
DeleteRevision(rev, R, E) ==
    IF \E e \in E : e[1] = rev \/ e[2] = rev
    THEN [ok |-> FALSE, rows |-> R]
    ELSE [ok |-> TRUE, rows |-> R \ {rev}]

\* SELECT "DependentRevision" from dependent_revision WHERE "ParentRevision" = x
Dependents(x, E) == {e[2] : e \in {e \in E : e[1] = x}}

----------------------------------------------------------------------------
\* apply_migrations

\* Pending without the deletion of the applied revisions.
PendingAll(files, applied) == files

\* The files left in revision_to_file once the applied ones are deleted.

Pending(files, applied) == files \ applied

\* Outstanding that takes every predecessor for applied.
NoOutstanding(preds, applied) == <<>>

\* revision_to_predecessors[revision][1]: the predecessors not applied yet.

Outstanding(preds, applied) == SelectSeq(preds, LAMBDA p : p \notin applied)

\* revisions_with_no_outstanding_predecessors
Frontier(rtp) == {r \in DOMAIN rtp : rtp[r][2] = <<>>}

\* InvalidDependencies without the test.
NeverInvalid(frontier, pending) == FALSE

\* `if not revisions_with_no_outstanding_predecessors and revision_to_file`

InvalidDependencies(frontier, pending) == frontier = {} /\ pending # {}

\* list.remove(x): drops the first x only.
RemoveFirst(s, x) ==
    IF x \notin Range(s) THEN s
    ELSE LET i == CHOOSE i \in 1..Len(s) : s[i] = x /\ \A j \in 1..(i - 1) : s[j] # x
         IN  SubSeq(s, 1, i - 1) \o SubSeq(s, i + 1, Len(s))

Ledger == <<revision, dependent_revision>>

AppliedByRun == UNION Range(rounds)

NoLedger == <<{}, {}>>

NoLocals == [r \in {} |-> <<>>]

ApplyStart ==
    /\ pc = "idle"
    /\ LET applied_migrations == revision
           pending == Pending(DOMAIN catalog, applied_migrations)
           rtp == [r \in pending |->
                       <<catalog[r], Outstanding(catalog[r], applied_migrations)>>]
           frontier == Frontier(rtp)
       IN  /\ cmd' = [op |-> "up", arg |-> "-"]
           /\ ledger0' = Ledger
           /\ base' = Ledger
           /\ rt' = TRUE
           /\ failed' = NoRow
           /\ undone' = <<>>
           /\ IF pending = {}
              THEN \* 'All revisions have been previously applied': return
                   /\ result' = "ok"
                   /\ pc' = "idle"
                   /\ revision_to_predecessors' = NoLocals
                   /\ todo' = {}
                   /\ rounds' = <<>>
              ELSE IF InvalidDependencies(frontier, pending)
              THEN \* sys.exit(1)
                   /\ result' = "exit1"
                   /\ pc' = "idle"
                   /\ revision_to_predecessors' = NoLocals
                   /\ todo' = {}
                   /\ rounds' = <<>>
              ELSE IF frontier = {}
              THEN \* the while loop finds nothing to do and ends
                   /\ result' = "ok"
                   /\ pc' = "idle"
                   /\ revision_to_predecessors' = NoLocals
                   /\ todo' = {}
                   /\ rounds' = <<>>
              ELSE /\ result' = "none"
                   /\ pc' = "up"
                   /\ revision_to_predecessors' = rtp
                   /\ todo' = frontier
                   /\ rounds' = <<{}>>
    /\ UNCHANGED <<catalog, revision, dependent_revision, stack>>
    /\ UNCHANGED second

----------------------------------------------------------------------------
\* _apply_revisions_to_database

\* The transaction of one revision: the script, the revision row, one edge
\* row per declared predecessor.
ApplyTx(rev, parents, R, E) ==
    LET r1 == InsertRevision(rev, R)
        e1 == InsertEdges(parents, rev, r1.rows, E)
    IN  [ok |-> r1.ok /\ e1.ok, revision |-> r1.rows, edges |-> e1.rows]

\* One pass of the for loop whose transaction commits; after the last
\* revision of the round the frontier is computed again.
ApplyCommit(rev) ==
    /\ pc = "up"
    /\ rev \in todo
    /\ LET tx == ApplyTx(rev, revision_to_predecessors[rev][1], revision, dependent_revision)
           rtp == [q \in DOMAIN revision_to_predecessors \ {rev} |->
                       <<revision_to_predecessors[q][1],
                         RemoveFirst(revision_to_predecessors[q][2], rev)>>]
           done == [rounds EXCEPT ![Len(rounds)] = @ \cup {rev}]
           frontier == Frontier(rtp)
       IN  /\ tx.ok
           /\ revision' = tx.revision
           /\ dependent_revision' = tx.edges
           /\ IF todo \ {rev} # {}
              THEN /\ todo' = todo \ {rev}
                   /\ revision_to_predecessors' = rtp
                   /\ rounds' = done
                   /\ pc' = "up"
                   /\ result' = "none"
              ELSE IF frontier = {}
              THEN \* all_migrations_applied
                   /\ todo' = {}
                   /\ revision_to_predecessors' = NoLocals
                   /\ rounds' = done
                   /\ pc' = "idle"
                   /\ result' = "ok"
              ELSE /\ todo' = frontier
                   /\ revision_to_predecessors' = rtp
                   /\ rounds' = Append(done, {})
                   /\ pc' = "up"
                   /\ result' = "none"
    /\ UNCHANGED <<catalog, stack, cmd, ledger0, undone, failed, base, rt>>
    /\ UNCHANGED second

\* One pass of the for loop that raises: the file does not open, the script
\* fails or a constraint refuses a row.  Nothing catches the exception.
ApplyFail(rev) ==
    /\ pc = "up"
    /\ rev \in todo
    /\ LET after == AbortedTx(rev, revision, dependent_revision)
       IN  /\ revision' = after[1]
           /\ dependent_revision' = after[2]
    /\ failed' = rev
    /\ result' = "error"
    /\ pc' = "idle"
    /\ todo' = {}
    /\ revision_to_predecessors' = NoLocals
    /\ UNCHANGED <<catalog, stack, cmd, ledger0, rounds, undone, base, rt>>
    /\ UNCHANGED second

----------------------------------------------------------------------------
\* remove_migration

Frame(x, E) == [target |-> x, deps |-> Dependents(x, E)]

Top == stack[Len(stack)]

\* `down <revision>`: the outermost call and its query.
RollbackStart(x) ==
    /\ pc = "idle"
    /\ pc' = "down"
    /\ stack' = <<Frame(x, dependent_revision)>>
    /\ cmd' = [op |-> "down", arg |-> x]
    /\ ledger0' = Ledger
    /\ result' = "none"
    /\ failed' = NoRow
    /\ undone' = <<>>
    /\ LET keep == rt /\ x \in AppliedByRun
       IN  /\ rt' = keep
           /\ base' = IF keep THEN base ELSE NoLedger
           /\ rounds' = IF keep THEN rounds ELSE <<>>
    /\ UNCHANGED <<catalog, revision, dependent_revision, revision_to_predecessors, todo>>
    /\ UNCHANGED second

\* The for loop reaches dependent d of the list read at the call's start:
\* the recursive call and its query.
RollbackCall(d) ==
    /\ pc = "down"
    /\ d \in Top.deps
    /\ stack' = Append([stack EXCEPT ![Len(stack)].deps = @ \ {d}],
                       Frame(d, dependent_revision))
    /\ UNCHANGED <<catalog, revision, dependent_revision, pc, revision_to_predecessors, todo,
                   cmd, result, ledger0, rounds, undone, failed, base, rt>>
    /\ UNCHANGED second

\* The transaction that undoes a revision: the reverse script, its edge
\* rows as dependent, its revision row.
RemoveTx(rev, R, E) ==
    LET e1 == DeleteDependentRevision(rev, E)
        r1 == DeleteRevision(rev, R, e1)
    IN  [ok |-> r1.ok, revision |-> r1.rows, edges |-> e1]

\* The for loop is over and the transaction commits; the call returns.
RollbackUndo ==
    /\ pc = "down"
    /\ Top.deps = {}
    /\ LET tx == RemoveTx(Top.target, revision, dependent_revision)
       IN  /\ tx.ok
           /\ revision' = tx.revision
           /\ dependent_revision' = tx.edges
    /\ undone' = Append(undone, Top.target)
    /\ stack' = SubSeq(stack, 1, Len(stack) - 1)
    /\ IF Len(stack) = 1
       THEN pc' = "idle" /\ result' = "ok"
       ELSE pc' = "down" /\ result' = "none"
    /\ UNCHANGED <<catalog, revision_to_predecessors, todo, cmd, ledger0, rounds, failed,
                   base, rt>>
    /\ UNCHANGED second

\* The for loop is over and the call raises: down/<revision>.sql does not
\* open, the reverse script fails or a constraint refuses the deletion.
RollbackFail ==
    /\ pc = "down"
    /\ Top.deps = {}
    /\ LET after == AbortedTx(Top.target, revision, dependent_revision)
       IN  /\ revision' = after[1]
           /\ dependent_revision' = after[2]
    /\ failed' = Top.target
    /\ result' = "error"
    /\ pc' = "idle"
    /\ stack' = <<>>
    /\ UNCHANGED <<catalog, revision_to_predecessors, todo, cmd, ledger0, rounds, undone,
                   base, rt>>
    /\ UNCHANGED second

----------------------------------------------------------------------------
\* A second invocation of `up`, running at the same time as the commands
\* above: its own process, its own connection, the same two tables.

first == <<pc, revision_to_predecessors, todo, stack, cmd, result, ledger0, rounds, undone,
           failed, base, rt>>

Apply2Start ==
    /\ pc2 = "idle"
    /\ LET applied_migrations == revision
           pending == Pending(DOMAIN catalog, applied_migrations)
           rtp == [r \in pending |->
                       <<catalog[r], Outstanding(catalog[r], applied_migrations)>>]
           frontier == Frontier(rtp)
       IN  /\ failed2' = NoRow
           /\ done2' = {}
           /\ IF pending = {}
              THEN /\ result2' = "ok"
                   /\ pc2' = "done"
                   /\ revision_to_predecessors2' = NoLocals
                   /\ todo2' = {}
              ELSE IF InvalidDependencies(frontier, pending)
              THEN /\ result2' = "exit1"
                   /\ pc2' = "done"
                   /\ revision_to_predecessors2' = NoLocals
                   /\ todo2' = {}
              ELSE IF frontier = {}
              THEN /\ result2' = "ok"
                   /\ pc2' = "done"
                   /\ revision_to_predecessors2' = NoLocals
                   /\ todo2' = {}
              ELSE /\ result2' = "none"
                   /\ pc2' = "up"
                   /\ revision_to_predecessors2' = rtp
                   /\ todo2' = frontier
    /\ UNCHANGED <<catalog, revision, dependent_revision>>
    /\ UNCHANGED first

Apply2Commit(rev) ==
    /\ pc2 = "up"
    /\ rev \in todo2
    /\ LET tx == ApplyTx(rev, revision_to_predecessors2[rev][1], revision, dependent_revision)
           rtp == [q \in DOMAIN revision_to_predecessors2 \ {rev} |->
                       <<revision_to_predecessors2[q][1],
                         RemoveFirst(revision_to_predecessors2[q][2], rev)>>]
           frontier == Frontier(rtp)
       IN  /\ tx.ok
           /\ revision' = tx.revision
           /\ dependent_revision' = tx.edges
           /\ done2' = done2 \cup {rev}
           /\ IF todo2 \ {rev} # {}
              THEN /\ todo2' = todo2 \ {rev}
                   /\ revision_to_predecessors2' = rtp
                   /\ pc2' = "up"
                   /\ result2' = "none"
              ELSE IF frontier = {}
              THEN /\ todo2' = {}
                   /\ revision_to_predecessors2' = NoLocals
                   /\ pc2' = "done"
                   /\ result2' = "ok"
              ELSE /\ todo2' = frontier
                   /\ revision_to_predecessors2' = rtp
                   /\ pc2' = "up"
                   /\ result2' = "none"
    /\ UNCHANGED <<catalog, failed2>>
    /\ UNCHANGED first

Apply2Fail(rev) ==
    /\ pc2 = "up"
    /\ rev \in todo2
    /\ LET after == AbortedTx(rev, revision, dependent_revision)
       IN  /\ revision' = after[1]
           /\ dependent_revision' = after[2]
    /\ failed2' = rev
    /\ result2' = "error"
    /\ pc2' = "done"
    /\ todo2' = {}
    /\ revision_to_predecessors2' = NoLocals
    /\ UNCHANGED <<catalog, done2>>
    /\ UNCHANGED first

----------------------------------------------------------------------------

Init ==
    /\ catalog \in Catalogs \cup {Scenario1}
    /\ revision \in SUBSET Ghosts
    /\ dependent_revision = {}
    /\ pc = "idle"
    /\ revision_to_predecessors = NoLocals
    /\ todo = {}
    /\ stack = <<>>
    /\ cmd = [op |-> "init", arg |-> "-"]
    /\ result = "none"
    /\ ledger0 = <<revision, {}>>
    /\ rounds = <<>>
    /\ undone = <<>>
    /\ failed = NoRow
    /\ base = <<revision, {}>>
    /\ rt = FALSE
    /\ pc2 = "idle"
    /\ revision_to_predecessors2 = NoLocals
    /\ todo2 = {}
    /\ result2 = "none"
    /\ failed2 = NoRow
    /\ done2 = {}

Next ==
    \/ ApplyStart
    \/ \E rev \in DOMAIN catalog : ApplyCommit(rev)
    \/ \E rev \in DOMAIN catalog : ApplyFail(rev)
    \/ \E x \in DOMAIN catalog \cup Ghosts : RollbackStart(x)
    \/ \E d \in DOMAIN catalog \cup Ghosts : RollbackCall(d)
    \/ RollbackUndo
    \/ RollbackFail

Spec == Init /\ [][Next]_vars

\* A step of a running `down`: the process is not stopped from outside, so
\* the next statement of remove_migration is executed.
DownStep ==
    \/ \E d \in DOMAIN catalog \cup Ghosts : RollbackCall(d)
    \/ RollbackUndo
    \/ RollbackFail

SpecDown == Spec /\ WF_vars(DownStep)

\* Two invocations at once, on the catalogs with at most MaxRaceMarkers
\* marker lines.
RECURSIVE Markers(_, _)
Markers(c, fs) ==
    IF fs = {} THEN 0
    ELSE LET f == CHOOSE f \in fs : TRUE
         IN  Len(c[f]) + Markers(c, fs \ {f})

InitRace ==
    /\ Init
    /\ Markers(catalog, DOMAIN catalog) <= MaxRaceMarkers

NextRace ==
    \/ ApplyStart
    \/ \E rev \in DOMAIN catalog : ApplyCommit(rev)
    \/ \E rev \in DOMAIN catalog : ApplyFail(rev)
    \/ \E x \in DOMAIN catalog \cup Ghosts : RollbackStart(x)
    \/ \E d \in DOMAIN catalog \cup Ghosts : RollbackCall(d)
    \/ RollbackUndo
    \/ RollbackFail
    \/ Apply2Start
    \/ \E rev \in DOMAIN catalog : Apply2Commit(rev)
    \/ \E rev \in DOMAIN catalog : Apply2Fail(rev)

SpecRace == InitRace /\ [][NextRace]_vars

----------------------------------------------------------------------------
\* What the claims speak of

\* The part of S that a cycle of declared predecessors holds back: peel off,
\* again and again, the revisions with no declared predecessor left in S.
RECURSIVE Stuck(_)
Stuck(S) ==
    LET free == {r \in S : Range(catalog[r]) \cap S = {}}
    IN  IF free = {} THEN S ELSE Stuck(S \ free)

AcyclicCatalog == Stuck(DOMAIN catalog) = {}

\* The pending revisions when the command started.
Pending0 == DOMAIN catalog \ ledger0[1]

\* Every declared predecessor is a file of the catalog or was applied.
Resolvable0 ==
    \A r \in DOMAIN catalog : Range(catalog[r]) \subseteq DOMAIN catalog \cup ledger0[1]

\* The edge rows the apply of the revisions of S records.
DeclaredEdges(S) == UNION {{<<p, d>> : p \in Range(catalog[d])} : d \in S}

RanUp == cmd.op = "up"

EndedUp == RanUp /\ pc = "idle"

\* C1: on an acyclic catalog whose declared predecessors are all files or
\* applied, every revision an `up` has committed has all its declared
\* predecessors in the revision table, each of them applied before the run
\* or committed in an earlier round of it.
C1_PredecessorsFirst ==
    (RanUp /\ AcyclicCatalog /\ Resolvable0) =>
        \A i \in DOMAIN rounds : \A r \in rounds[i] : \A p \in Range(catalog[r]) :
            /\ p \in revision
            /\ p \in ledger0[1] \/ \E j \in 1..(i - 1) : p \in rounds[j]

C1_Witness ==
    /\ EndedUp /\ result = "ok" /\ AcyclicCatalog /\ Resolvable0
    /\ Len(rounds) = 3
    /\ \E r \in rounds[3] : Range(catalog[r]) \cap rounds[2] # {}

\* C2: when the pending revisions hold a cycle of declared predecessors, an
\* `up` never changes the two tables and ends with the invalid-dependencies
\* exit.
C2_CycleRefused ==
    (RanUp /\ Stuck(Pending0) # {}) =>
        /\ Ledger = ledger0
        /\ pc = "idle" => result = "exit1"

\* C3: when something is pending and every pending revision has a declared
\* predecessor that is not applied, `up` exits with status 1 at once: no
\* script has run, no transaction has failed, the two tables are as before.
C3_EmptyFrontierExits ==
    (RanUp /\ Pending0 # {} /\ \A r \in Pending0 : Range(catalog[r]) \ ledger0[1] # {}) =>
        /\ pc = "idle"
        /\ result = "exit1"
        /\ Ledger = ledger0
        /\ rounds = <<>>
        /\ failed = NoRow

C3_Witness ==
    /\ EndedUp /\ result = "exit1"
    /\ catalog["A"] = <<"B">> /\ catalog["B"] = <<"A">>
    /\ revision \cap {"A", "B"} = {}

\* C4: when a pending revision declares a predecessor that is neither a file
\* of the catalog nor applied, an `up` never changes the two tables and ends
\* with the invalid-dependencies exit.
C4_MissingRefused ==
    (RanUp /\ \E r \in Pending0 : Range(catalog[r]) \ (DOMAIN catalog \cup ledger0[1]) # {}) =>
        /\ Ledger = ledger0
        /\ pc = "idle" => result = "exit1"

\* C5: once a transaction of an `up` has failed, the run is over, the failed
\* revision has no revision row and no edge row, and the two tables hold
\* what they held before the run plus the rows of the revisions committed
\* before the failure, nothing else.
C5_AtomicForward ==
    (RanUp /\ failed # NoRow) =>
        /\ pc = "idle" /\ result = "error"
        /\ failed \notin revision
        /\ \A e \in dependent_revision : e[1] # failed /\ e[2] # failed
        /\ revision = ledger0[1] \cup AppliedByRun
        /\ dependent_revision = ledger0[2] \cup DeclaredEdges(AppliedByRun)

C5_Witness ==
    /\ RanUp /\ failed # NoRow
    /\ catalog[failed] # <<>>
    /\ Len(rounds) = 2 /\ rounds[2] # {}
    /\ DeclaredEdges(rounds[2]) # {}
    /\ DeclaredEdges(rounds[2]) \subseteq dependent_revision

\* C6: after an `up` that ended well on an acyclic catalog, the revision
\* table is what it was plus every file of the catalog, and the edge rows of
\* each newly applied revision are its declared predecessors, one each.
C6_AllAppliedWithEdges ==
    (EndedUp /\ result = "ok" /\ AcyclicCatalog) =>
        /\ revision = ledger0[1] \cup DOMAIN catalog
        /\ \A d \in Pending0 :
               {e \in dependent_revision : e[2] = d} = DeclaredEdges({d})

\* C7: a `down X` that ended well leaves no revision row of X and no edge
\* row that names X as parent or as dependent.
C7_RollbackClears ==
    (cmd.op = "down" /\ pc = "idle" /\ result = "ok") =>
        /\ cmd.arg \notin revision
        /\ \A e \in dependent_revision : e[1] # cmd.arg /\ e[2] # cmd.arg

C7_Witness ==
    /\ cmd.op = "down" /\ pc = "idle" /\ result = "ok"
    /\ cmd.arg \in ledger0[1]
    /\ \E e \in ledger0[2] : e[1] = cmd.arg
    /\ \E e \in ledger0[2] : e[2] = cmd.arg
    /\ Len(undone) >= 2

Scenario1Applied ==
    <<{"A", "B", "C", "D"}, {<<"A", "B">>, <<"A", "C">>, <<"B", "D">>, <<"C", "D">>}>>

Scenario2Ended ==
    /\ catalog = Scenario1 /\ ledger0 = Scenario1Applied
    /\ cmd = [op |-> "down", arg |-> "A"]
    /\ pc = "idle" /\ result = "ok"

\* C8: the transaction that undoes a revision commits only when no edge row
\* names that revision as parent; and `down A` on the end state of Scenario
\* 1 removes D, then B and C in either order, then A, and leaves the
\* revision table empty.
C8_DependentsFirst ==
    /\ [][RollbackUndo => \A e \in dependent_revision : e[1] # Top.target]_vars
    /\ [](Scenario2Ended =>
            /\ undone \in {<<"D", "B", "C", "A">>, <<"D", "C", "B", "A">>}
            /\ revision = {})

C8_Witness == Scenario2Ended /\ undone = <<"D", "C", "B", "A">>

\* C9: once every revision an `up` on an acyclic catalog applied has been
\* removed again by `down` commands that asked for revisions of that run,
\* the two tables are what they were when the `up` started.
C9_RoundTrip ==
    (pc = "idle" /\ rt /\ AcyclicCatalog /\ AppliedByRun \cap revision = {}) =>
        Ledger = base

C9_Witness ==
    /\ pc = "idle" /\ rt /\ AcyclicCatalog /\ AppliedByRun \cap revision = {}
    /\ cmd.op = "down" /\ result = "ok"
    /\ Len(rounds) >= 2
    /\ base[1] # {}
    /\ \E e \in DeclaredEdges(AppliedByRun) : e[1] \in base[1]

\* C10: an `up` never runs the transaction of a revision that was applied
\* when it started, and when every file of the catalog was applied it ends
\* well at once, with nothing committed and the two tables as before.
C10_Idempotent ==
    RanUp =>
        /\ AppliedByRun \cap ledger0[1] = {}
        /\ todo \cap ledger0[1] = {}
        /\ failed \notin ledger0[1]
        /\ Pending0 = {} =>
              /\ pc = "idle" /\ result = "ok"
              /\ rounds = <<>>
              /\ Ledger = ledger0

C10_Witness ==
    /\ EndedUp /\ result = "ok"
    /\ Pending0 = {}
    /\ DOMAIN catalog \subseteq revision
    /\ dependent_revision # {}

\* C11: in every state the applied set is closed under declared
\* predecessors: each declared predecessor of an applied revision of the
\* catalog has a revision row, also after a command that stopped part-way.
C11_PredecessorClosed ==
    \A d \in revision \cap DOMAIN catalog : Range(catalog[d]) \subseteq revision

C11_Witness ==
    /\ cmd.op = "down" /\ pc = "idle" /\ result = "error"
    /\ undone # <<>>
    /\ \E d \in revision \cap DOMAIN catalog : catalog[d] # <<>>
    /\ \E d \in ledger0[1] \ revision : catalog[d] # <<>>

\* C13: a `down` of a revision that has no revision row commits no undo
\* transaction (no reverse script runs against the store) and leaves the
\* two tables as they were.
C13_UnappliedTargetUntouched ==
    (cmd.op = "down" /\ cmd.arg \notin ledger0[1]) =>
        /\ undone = <<>>
        /\ Ledger = ledger0

\* C14: an `up` that finds in the revision table a revision without a file
\* in the catalog stops with a fatal error: it never enters the apply loop,
\* commits nothing and does not end well.
C14_CatalogInconsistencyFatal ==
    (RanUp /\ ledger0[1] \ DOMAIN catalog # {}) =>
        /\ pc = "idle"
        /\ result \in {"exit1", "error"}
        /\ rounds = <<>>

\* The level batches of the pending set: again and again, the pending
\* revisions whose declared predecessors are all applied.
RECURSIVE LevelRounds(_, _)
LevelRounds(applied, pend) ==
    LET level == {r \in pend : Range(catalog[r]) \subseteq applied}
    IN  IF level = {} THEN <<>>
        ELSE <<level>> \o LevelRounds(applied \cup level, pend \ level)

\* C15: the rounds of an `up` that ended well are the level batches of the
\* pending set, round k being exactly the still pending revisions whose
\* declared predecessors were applied before the run or in rounds before k,
\* and no member of a round is a declared predecessor of another member.
C15_RoundsAreLevels ==
    (EndedUp /\ result = "ok") =>
        /\ rounds = LevelRounds(ledger0[1], Pending0)
        /\ \A k \in DOMAIN rounds : \A r \in rounds[k] :
               Range(catalog[r]) \cap rounds[k] = {}

\* C16: an `up` that ended well on an acyclic catalog whose declared
\* predecessors are all files or applied has left no file of the catalog
\* unapplied.
C16_NothingLeftPending ==
    (EndedUp /\ result = "ok" /\ AcyclicCatalog /\ Resolvable0) =>
        DOMAIN catalog \subseteq revision

\* The revisions reachable from x along the edge rows E, x included.
RECURSIVE ReachFrom(_, _)
ReachFrom(S, E) ==
    LET more == S \cup {e[2] : e \in {e \in E : e[1] \in S}}
    IN  IF more = S THEN S ELSE ReachFrom(more, E)

C19_UndoneOnce ==
    (cmd.op = "down" /\ cmd.arg \in ledger0[1]) =>
        /\ \A i, j \in DOMAIN undone : undone[i] = undone[j] => i = j
        /\ Range(undone) \subseteq ledger0[1]

\* The edge rows among S that a cycle holds back: peel off, again and
\* again, the revisions of S that are the dependent of no edge within S.
RECURSIVE EdgeStuck(_, _)
EdgeStuck(S, E) ==
    LET free == {r \in S : ~\E e \in E : e[2] = r /\ e[1] \in S}
    IN  IF free = {} THEN S ELSE EdgeStuck(S \ free, E)

EdgesAcyclic ==
    EdgeStuck({e[1] : e \in dependent_revision} \cup {e[2] : e \in dependent_revision},
              dependent_revision) = {}

\* C20: in every state the recorded edges have no cycle, and every `down`
\* that runs comes to its end.
C20_EdgesAcyclicDownEnds ==
    /\ []EdgesAcyclic
    /\ (pc = "down") ~> (pc = "idle")

C20_Witness ==
    /\ cmd.op = "down" /\ pc = "idle" /\ result = "ok"
    /\ Len(undone) >= 3
    /\ Cardinality(ledger0[2]) >= 3

\* C12: when two `up` invocations race for a revision, a transaction for it
\* commits only while it has no revision row, so one of the two at most;
\* an invocation whose transaction finds the row raises, leaves the two
\* tables as they are and stops there, applying nothing further.
C12_OneWriterWins ==
    /\ [][\A r \in DOMAIN catalog :
             /\ (ApplyCommit(r) \/ Apply2Commit(r)) => r \notin revision
             /\ (r \in revision /\ r \in todo2 /\ (Apply2Commit(r) \/ Apply2Fail(r))) =>
                    /\ UNCHANGED Ledger
                    /\ pc2' = "done" /\ result2' = "error" /\ failed2' = r
             /\ (r \in revision /\ r \in todo /\ (ApplyCommit(r) \/ ApplyFail(r))) =>
                    /\ UNCHANGED Ledger
                    /\ pc' = "idle" /\ result' = "error" /\ failed' = r]_vars
    /\ [](pc2 = "done" => todo2 = {})

C12_Witness ==
    /\ RanUp /\ pc2 = "done" /\ result2 = "error"
    /\ failed2 \in AppliedByRun
    /\ failed2 \in revision
    /\ failed2 \notin ledger0[1]
    /\ DOMAIN catalog \ (revision \cup done2) # {}

\* C18: under every interleaving of the two invocations both endpoints of
\* every edge row have a revision row.
C18_EdgeEndpointsApplied ==
    \A e \in dependent_revision : e[1] \in revision /\ e[2] \in revision

C18_Witness ==
    /\ cmd.op = "down" /\ pc = "idle" /\ result = "error"
    /\ failed = cmd.arg
    /\ Dependents(cmd.arg, ledger0[2]) = {}
    /\ Dependents(cmd.arg, dependent_revision) \cap done2 # {}

====
